---------------------------- MODULE Spec2Model ----------------------------
(***************************************************************************)
(* TrendMonster signal generator (src/trendmonster_signal.py).             *)
(*                                                                         *)
(* Number representation.  The program computes on Python floats; the      *)
(* model computes on exact rationals:                                      *)
(*   - a portfolio weight w is the integer 3000 * w, so that one           *)
(*     thousandth (the 0.001 of the validation tolerance and of the        *)
(*     rebalance threshold) is 3 units and every weight of the allocation  *)
(*     table is a whole number of units; W(p) is p thousandths;            *)
(*   - the VIX ratio is the fraction [num, den] with den > 0, compared     *)
(*     with the thresholds (held in hundredths) by cross-multiplication.   *)
(* The Signal's three timestamps are passed through or read from the wall  *)
(* clock and take no part in any decision; they are left out of the        *)
(* Signal record.                                                          *)
(***************************************************************************)
EXTENDS Integers, Sequences, FiniteSets, TLC

VARIABLES
    current_allocation,  \* TrendMonsterSignal._current_allocation (None or an Allocation)
    last_set,            \* history: the weights of the last set_current_allocation that returned
    result,              \* outcome of the last call on the generator
    args,                \* inputs of a call of one of the module-level functions
    ret                  \* what that call returned

vars == <<current_allocation, last_set, result, args, ret>>

---------------------------------------------------------------------------
(* Bounds of the explored inputs *)

Jitter == 3        \* weights are explored up to Jitter units (1/3000) around the base allocations
MaxVix == 22       \* largest vix_close
MaxVix3m == 20     \* largest vix3m_close

---------------------------------------------------------------------------
(* StrategyParams: thresholds on the VIX ratio, in hundredths *)

VIX_VERY_LOW == 80
VIX_LOW == 90
VIX_MODERATE == 95
VIX_ELEVATED == 105

---------------------------------------------------------------------------
(* Numbers *)

Abs(x) == IF x < 0 THEN -x ELSE x

\* p thousandths as a weight
W(p) == 3 * p

\* the float literals 1.0 (line 103), 0.001 (line 103) and 0.001 (line 329)
one == W(1000)
tolerance == W(1)
threshold == W(1)

ZeroDivisionError == [raised |-> "ZeroDivisionError"]
ValueError == [raised |-> "ValueError"]
None == [none |-> TRUE]

\* a / b without the fault: a zero divisor gives the infinite quotient a/0
truediv_unchecked(a, b) ==
    IF b >= 0 THEN [num |-> a, den |-> b] ELSE [num |-> -a, den |-> -b]

\* Python's a / b on numbers: raises on b = 0, else the exact quotient.
truediv(a, b) ==
    IF b = 0 THEN ZeroDivisionError
    ELSE IF b > 0 THEN [num |-> a, den |-> b]
    ELSE [num |-> -a, den |-> -b]

\* vix_ratio < t and vix_ratio > t for a threshold t in hundredths
Lt(vix_ratio, t) == vix_ratio.num * 100 < t * vix_ratio.den
Gt(vix_ratio, t) == vix_ratio.num * 100 > t * vix_ratio.den

---------------------------------------------------------------------------
(* Allocation: the dataclass and its __post_init__ validation *)

Allocation(spy_weight, tqqq_weight, cash_weight) ==
    LET total == spy_weight + tqqq_weight + cash_weight
    IN  IF Abs(total - one) > tolerance
        THEN ValueError
        ELSE [spy_weight |-> spy_weight,
              tqqq_weight |-> tqqq_weight,
              cash_weight |-> cash_weight]

---------------------------------------------------------------------------
(* Core signal logic *)

\* determine_trend with >= in place of >
determine_trend_ge(spy_close, spy_sma) ==
    IF spy_close >= spy_sma THEN "UPTREND" ELSE "DOWNTREND"

determine_trend(spy_close, spy_sma) ==
    IF spy_close > spy_sma THEN "UPTREND" ELSE "DOWNTREND"

\* vix_ratio <= t: the comparison an inclusive upper band edge would make
Le(vix_ratio, t) == vix_ratio.num * 100 <= t * vix_ratio.den

\* classify_vix_level with the band edges tested by <= instead of <
classify_vix_level_inclusive(vix_ratio) ==
    IF Le(vix_ratio, VIX_VERY_LOW) THEN "VERY_LOW"
    ELSE IF Le(vix_ratio, VIX_LOW) THEN "LOW"
    ELSE IF Le(vix_ratio, VIX_MODERATE) THEN "MODERATE"
    ELSE IF Le(vix_ratio, VIX_ELEVATED) THEN "ELEVATED"
    ELSE "HIGH"

classify_vix_level(vix_ratio) ==
    IF Lt(vix_ratio, VIX_VERY_LOW) THEN "VERY_LOW"
    ELSE IF Lt(vix_ratio, VIX_LOW) THEN "LOW"
    ELSE IF Lt(vix_ratio, VIX_MODERATE) THEN "MODERATE"
    ELSE IF Lt(vix_ratio, VIX_ELEVATED) THEN "ELEVATED"
    ELSE "HIGH"

\* determine_posture with the upper test made >= (the edge classify_vix_level uses)
determine_posture_ge(trend, vix_ratio) ==
    IF trend = "DOWNTREND" THEN "CASH"
    ELSE IF Lt(vix_ratio, VIX_LOW) THEN "AGGRESSIVE"
    ELSE IF ~Lt(vix_ratio, VIX_ELEVATED) THEN "DEFENSIVE"
    ELSE "BALANCED"

determine_posture(trend, vix_ratio) ==
    IF trend = "DOWNTREND" THEN "CASH"
    ELSE IF Lt(vix_ratio, VIX_LOW) THEN "AGGRESSIVE"
    ELSE IF Gt(vix_ratio, VIX_ELEVATED) THEN "DEFENSIVE"
    ELSE "BALANCED"

\* calculate_allocation with the band edges tested by <= instead of <
calculate_allocation_inclusive(trend, vix_ratio) ==
    IF trend = "DOWNTREND" THEN Allocation(W(0), W(0), W(1000))
    ELSE IF Le(vix_ratio, VIX_VERY_LOW) THEN Allocation(W(300), W(700), W(0))
    ELSE IF Le(vix_ratio, VIX_LOW) THEN Allocation(W(500), W(500), W(0))
    ELSE IF Le(vix_ratio, VIX_MODERATE) THEN Allocation(W(600), W(400), W(0))
    ELSE IF Le(vix_ratio, VIX_ELEVATED) THEN Allocation(W(750), W(250), W(0))
    ELSE Allocation(W(850), W(150), W(0))

calculate_allocation(trend, vix_ratio) ==
    IF trend = "DOWNTREND" THEN Allocation(W(0), W(0), W(1000))
    ELSE IF Lt(vix_ratio, VIX_VERY_LOW) THEN Allocation(W(300), W(700), W(0))
    ELSE IF Lt(vix_ratio, VIX_LOW) THEN Allocation(W(500), W(500), W(0))
    ELSE IF Lt(vix_ratio, VIX_MODERATE) THEN Allocation(W(600), W(400), W(0))
    ELSE IF Lt(vix_ratio, VIX_ELEVATED) THEN Allocation(W(750), W(250), W(0))
    ELSE Allocation(W(850), W(150), W(0))

\* f"{abs(change)*100:.1f}": the change as a percentage rounded to one decimal,
\* held in tenths of a percent.  One tenth of a percent is 3 units, so the
\* rounding never meets a tie.
format_pct(change) == (Abs(change) + 1) \div 3

NO_REBALANCE == "No rebalance required. Current allocation is optimal."
EXECUTE_PREFIX == "Execute at next market open: "
SET_CURRENT == "Set current allocation to enable rebalance instructions."

\* The instruction string: its fixed text, and the " | "-joined parts in order.
\* A part is the verb, the percentage and the instrument of one instruction
\* ("BUY 5.0% SPY", "Move 5.0% to Cash", "Deploy 5.0% from Cash").
Text(text, parts) == [text |-> text, parts |-> parts]

\* The three tests of the early return with <= in place of <
immaterial_inclusive(spy_change, tqqq_change, cash_change) ==
    /\ Abs(spy_change) <= threshold
    /\ Abs(tqqq_change) <= threshold
    /\ Abs(cash_change) <= threshold

\* The test of the early return: no change reaches the threshold.
immaterial(spy_change, tqqq_change, cash_change) ==
    /\ Abs(spy_change) < threshold
    /\ Abs(tqqq_change) < threshold
    /\ Abs(cash_change) < threshold

spy_part(spy_change) ==
    IF Abs(spy_change) >= threshold
    THEN << [action |-> IF spy_change > 0 THEN "BUY" ELSE "SELL",
             pct |-> format_pct(spy_change), what |-> "SPY"] >>
    ELSE << >>

tqqq_part(tqqq_change) ==
    IF Abs(tqqq_change) >= threshold
    THEN << [action |-> IF tqqq_change > 0 THEN "BUY" ELSE "SELL",
             pct |-> format_pct(tqqq_change), what |-> "TQQQ"] >>
    ELSE << >>

cash_part(cash_change) ==
    IF Abs(cash_change) >= threshold
    THEN IF cash_change > 0
         THEN << [action |-> "Move", pct |-> format_pct(cash_change), what |-> "Cash"] >>
         ELSE << [action |-> "Deploy", pct |-> format_pct(cash_change), what |-> "Cash"] >>
    ELSE << >>

\* The instructions list with the largest change first
instructions_largest_first(spy_change, tqqq_change, cash_change) ==
    IF Abs(cash_change) > Abs(spy_change)
    THEN cash_part(cash_change) \o spy_part(spy_change) \o tqqq_part(tqqq_change)
    ELSE spy_part(spy_change) \o tqqq_part(tqqq_change) \o cash_part(cash_change)

\* The instructions list as the three appends build it.
instruction_list(spy_change, tqqq_change, cash_change) ==
    spy_part(spy_change) \o tqqq_part(tqqq_change) \o cash_part(cash_change)

generate_rebalance_instructions(current, target) ==
    LET spy_change == target.spy_weight - current.spy_weight
        tqqq_change == target.tqqq_weight - current.tqqq_weight
        cash_change == target.cash_weight - current.cash_weight
    IN  IF immaterial(spy_change, tqqq_change, cash_change)
        THEN [required |-> FALSE, instructions |-> Text(NO_REBALANCE, << >>)]
        ELSE [required |-> TRUE,
              instructions |-> Text(EXECUTE_PREFIX,
                                    instruction_list(spy_change, tqqq_change, cash_change))]

---------------------------------------------------------------------------
(* TrendMonsterSignal: the generator and its one field *)

NoError == "none"

Signal(trend, posture, vix_level, allocation, vix_ratio, spy_close, spy_sma, required, text) ==
    [trend |-> trend,
     posture |-> posture,
     vix_level |-> vix_level,
     allocation |-> allocation,
     vix_ratio |-> vix_ratio,
     spy_close |-> spy_close,
     spy_sma |-> spy_sma,
     rebalance_required |-> required,
     rebalance_instructions |-> text]

\* What a call on the generator came to: the exception it raised, or what it
\* returned.  argv keeps the arguments of a generate call (the weights of a
\* set_current_allocation that returned are kept in last_set).
Raised(op, argv, error) ==
    [op |-> op, argv |-> argv, raised |-> error.raised, signal |-> None]
Returned(op, argv, value) ==
    [op |-> op, argv |-> argv, raised |-> NoError, signal |-> value]

\* TrendMonsterSignal.__init__
Init ==
    /\ current_allocation = None
    /\ last_set = None
    /\ result = Returned("__init__", << >>, None)
    /\ args = None
    /\ ret = None

\* set_current_allocation that drops the held allocation before it validates
set_current_allocation_reset_first(spy, tqqq, cash) ==
    LET allocation == Allocation(spy, tqqq, cash)
    IN  /\ IF allocation = ValueError
           THEN /\ result' = Raised("set_current_allocation", << >>, ValueError)
                /\ current_allocation' = None
                /\ UNCHANGED last_set
           ELSE /\ current_allocation' = allocation
                /\ last_set' = [spy_weight |-> spy, tqqq_weight |-> tqqq,
                                cash_weight |-> cash]
                /\ result' = Returned("set_current_allocation", << >>, None)
        /\ UNCHANGED <<args, ret>>

\* TrendMonsterSignal.set_current_allocation: the field is assigned only if
\* the Allocation constructor returns.
set_current_allocation(spy, tqqq, cash) ==
    LET allocation == Allocation(spy, tqqq, cash)
    IN  /\ IF allocation = ValueError
           THEN /\ result' = Raised("set_current_allocation", << >>, ValueError)
                /\ UNCHANGED <<current_allocation, last_set>>
           ELSE /\ current_allocation' = allocation
                /\ last_set' = [spy_weight |-> spy, tqqq_weight |-> tqqq,
                                cash_weight |-> cash]
                /\ result' = Returned("set_current_allocation", << >>, None)
        /\ UNCHANGED <<args, ret>>

\* The rebalance branch with an unset allocation treated as nothing to do
rebalance_against_unset_quiet(current, target_allocation) ==
    IF current # None
    THEN generate_rebalance_instructions(current, target_allocation)
    ELSE [required |-> FALSE, instructions |-> Text(NO_REBALANCE, << >>)]

\* The rebalance branch of generate: the diff against the held allocation, or
\* the placeholder when none is held.
rebalance_against(current, target_allocation) ==
    IF current # None
    THEN generate_rebalance_instructions(current, target_allocation)
    ELSE [required |-> TRUE, instructions |-> Text(SET_CURRENT, << >>)]

\* TrendMonsterSignal.generate
generate(spy_weekly_close, spy_50week_sma, vix_close, vix3m_close) ==
    LET vix_ratio == truediv(vix_close, vix3m_close)
        trend == determine_trend(spy_weekly_close, spy_50week_sma)
        vix_level == classify_vix_level(vix_ratio)
        posture == determine_posture(trend, vix_ratio)
        target_allocation == calculate_allocation(trend, vix_ratio)
        rebalance == rebalance_against(current_allocation, target_allocation)
        argv == <<spy_weekly_close, spy_50week_sma, vix_close, vix3m_close>>
    IN  /\ IF vix_ratio = ZeroDivisionError
           THEN result' = Raised("generate", argv, ZeroDivisionError)
           ELSE IF target_allocation = ValueError
           THEN result' = Raised("generate", argv, ValueError)
           ELSE result' = Returned("generate", argv,
                              Signal(trend, posture, vix_level, target_allocation,
                                     vix_ratio, spy_weekly_close, spy_50week_sma,
                                     rebalance.required, rebalance.instructions))
        /\ UNCHANGED <<current_allocation, last_set, args, ret>>

---------------------------------------------------------------------------
(* Inputs *)

Prices == {419, 420, 421}
SmaValues == {420}

VixCloses == 15..MaxVix
Vix3mCloses == {0, MaxVix3m}

\* The rows of the allocation table, an allocation with a negative weight, and
\* one whose weights sum to 1.5.
FixedWeights ==
    { <<W(0), W(0), W(1000)>>, <<W(300), W(700), W(0)>>, <<W(500), W(500), W(0)>>,
      <<W(600), W(400), W(0)>>, <<W(750), W(250), W(0)>>, <<W(850), W(150), W(0)>>,
      <<W(1500), W(0 - 500), W(0)>>, <<W(500), W(500), W(500)>> }

ALL_CASH == <<W(0), W(0), W(1000)>>
HALF_HALF == <<W(500), W(500), W(0)>>

Offsets == (0 - Jitter)..Jitter

\* Every triple within Jitter units of a base allocation in each weight.
Around(bases) ==
    { <<b[1] + i, b[2] + j, b[3] + k>> : b \in bases, i \in Offsets,
                                          j \in Offsets, k \in Offsets }

\* Weight triples a caller passes to set_current_allocation.
WeightInputs == FixedWeights \cup Around({ALL_CASH})

Next ==
    \/ \E w \in WeightInputs : set_current_allocation(w[1], w[2], w[3])
    \/ \E spy_weekly_close \in Prices, spy_50week_sma \in SmaValues,
          vix_close \in VixCloses, vix3m_close \in Vix3mCloses :
            generate(spy_weekly_close, spy_50week_sma, vix_close, vix3m_close)

Spec == Init /\ [][Next]_vars

---------------------------------------------------------------------------
(* The module-level functions called on their own *)

Trends == {"UPTREND", "DOWNTREND"}

Ratios == { truediv(n, d) : n \in 0..MaxVix, d \in 1..MaxVix3m }

Allocations(weights) == { Allocation(w[1], w[2], w[3]) : w \in weights } \ {ValueError}

TrendArgs == [kind : {"trend"}, spy_close : Prices, spy_sma : Prices]

RatioArgs == [kind : {"ratio"}, trend : Trends, vix_ratio : Ratios]

\* Pairs of Allocation objects, one of them anywhere near a base allocation.
DiffArgs ==
    LET near == Allocations(FixedWeights \cup Around({ALL_CASH, HALF_HALF}))
        fixed == Allocations(FixedWeights)
    IN  [kind : {"diff"}, current : near, target : fixed]
        \cup [kind : {"diff"}, current : fixed, target : near]

InitPure ==
    /\ current_allocation = None
    /\ last_set = None
    /\ result = Returned("__init__", << >>, None)
    /\ args \in TrendArgs \cup RatioArgs \cup DiffArgs
    /\ ret = None

Call(fn, value) ==
    /\ ret' = [fn |-> fn, value |-> value]
    /\ UNCHANGED <<current_allocation, last_set, result, args>>

call_determine_trend ==
    /\ args.kind = "trend"
    /\ Call("determine_trend", determine_trend(args.spy_close, args.spy_sma))

call_classify_vix_level ==
    /\ args.kind = "ratio"
    /\ Call("classify_vix_level", classify_vix_level(args.vix_ratio))

call_determine_posture ==
    /\ args.kind = "ratio"
    /\ Call("determine_posture", determine_posture(args.trend, args.vix_ratio))

call_calculate_allocation ==
    /\ args.kind = "ratio"
    /\ Call("calculate_allocation", calculate_allocation(args.trend, args.vix_ratio))

call_generate_rebalance_instructions ==
    /\ args.kind = "diff"
    /\ Call("generate_rebalance_instructions",
            generate_rebalance_instructions(args.current, args.target))

NextPure ==
    \/ call_determine_trend
    \/ call_classify_vix_level
    \/ call_determine_posture
    \/ call_calculate_allocation
    \/ call_generate_rebalance_instructions

SpecPure == InitPure /\ [][NextPure]_vars

---------------------------------------------------------------------------
(* Properties of the module-level functions, under SpecPure *)

Called(fn) == ret # None /\ ret.fn = fn

\* r < h/100 and r >= h/100 for a ratio r, by cross-multiplication
Below(r, h) == 100 * r.num < h * r.den
AtLeast(r, h) == 100 * r.num >= h * r.den
Exactly(r, h) == 100 * r.num = h * r.den

Weights(a) == <<a.spy_weight, a.tqqq_weight, a.cash_weight>>

\* The allocation table, in units of 1/3000.
Tabled(trend, r) ==
    IF trend = "DOWNTREND" THEN <<0, 0, 3000>>
    ELSE IF Below(r, 80) THEN <<900, 2100, 0>>
    ELSE IF AtLeast(r, 80) /\ Below(r, 90) THEN <<1500, 1500, 0>>
    ELSE IF AtLeast(r, 90) /\ Below(r, 95) THEN <<1800, 1200, 0>>
    ELSE IF AtLeast(r, 95) /\ Below(r, 105) THEN <<2250, 750, 0>>
    ELSE <<2550, 450, 0>>

InBand(level, r) ==
    CASE level = "VERY_LOW" -> Below(r, 80)
      [] level = "LOW"      -> AtLeast(r, 80) /\ Below(r, 90)
      [] level = "MODERATE" -> AtLeast(r, 90) /\ Below(r, 95)
      [] level = "ELEVATED" -> AtLeast(r, 95) /\ Below(r, 105)
      [] level = "HIGH"     -> AtLeast(r, 105)

VIXLevels == {"VERY_LOW", "LOW", "MODERATE", "ELEVATED", "HIGH"}

C9_Posture ==
    Called("determine_posture") =>
        LET r == args.vix_ratio
        IN  ret.value =
                IF args.trend = "DOWNTREND" THEN "CASH"
                ELSE IF Below(r, 90) THEN "AGGRESSIVE"
                ELSE IF ~Below(r, 105) /\ ~Exactly(r, 105) THEN "DEFENSIVE"
                ELSE "BALANCED"

\* An uptrend with the ratio exactly 1.05: BALANCED.
C9_Witness ==
    /\ Called("determine_posture")
    /\ args.trend = "UPTREND"
    /\ Exactly(args.vix_ratio, 105)
    /\ ret.value = "BALANCED"

\* The three changes target - current of a call of generate_rebalance_instructions.
Deltas ==
    << args.target.spy_weight - args.current.spy_weight,
       args.target.tqqq_weight - args.current.tqqq_weight,
       args.target.cash_weight - args.current.cash_weight >>

\* C3: required is false exactly when the three changes are all below 0.001
\* (3 units) in absolute value, and then the instruction is the fixed
\* no-action message; diffing an allocation against itself requires nothing.
C3_RequiredIffMaterial ==
    Called("generate_rebalance_instructions") =>
        /\ ret.value.required = FALSE <=> \A i \in 1..3 : Abs(Deltas[i]) < 3
        /\ ret.value.required = FALSE =>
               ret.value.instructions =
                   [text |-> "No rebalance required. Current allocation is optimal.",
                    parts |-> << >>]
        /\ args.current = args.target => ret.value.required = FALSE

\* Two different allocations whose changes all stay below the threshold.
C3_Witness ==
    /\ Called("generate_rebalance_instructions")
    /\ args.current # args.target
    /\ \E i \in 1..3 : Abs(Deltas[i]) = 2
    /\ ret.value.required = FALSE

\* The verb of an instruction for a change d of instrument i (1 SPY, 2 TQQQ, 3 cash).
Verb(i, d) ==
    IF i = 3 THEN (IF d > 0 THEN "Move" ELSE "Deploy")
    ELSE (IF d > 0 THEN "BUY" ELSE "SELL")

Inverse(verb) ==
    CASE verb = "BUY" -> "SELL"
      [] verb = "SELL" -> "BUY"
      [] verb = "Move" -> "Deploy"
      [] verb = "Deploy" -> "Move"

Instruments == <<"SPY", "TQQQ", "Cash">>

\* The instruments whose change reaches the threshold, in the order SPY, TQQQ, Cash.
Material == LET Test(i) == Abs(Deltas[i]) >= 3 IN SelectSeq(<<1, 2, 3>>, Test)

\* C4: a required rebalance lists one instruction for each instrument whose
\* change reaches 0.001 and none for the others, in the order SPY, TQQQ, Cash;
\* the verb follows the sign of the change, and the call with current and
\* target swapped lists the same instruments with every verb inverted.
C4_OrderedInstructions ==
    Called("generate_rebalance_instructions") /\ ret.value.required =>
        LET parts == ret.value.instructions.parts
            swapped == generate_rebalance_instructions(args.target, args.current)
        IN  /\ Len(parts) = Len(Material)
            /\ \A n \in 1..Len(parts) :
                   /\ parts[n].what = Instruments[Material[n]]
                   /\ parts[n].action = Verb(Material[n], Deltas[Material[n]])
            /\ swapped.required
            /\ Len(swapped.instructions.parts) = Len(parts)
            /\ \A n \in 1..Len(parts) :
                   /\ swapped.instructions.parts[n].what = parts[n].what
                   /\ swapped.instructions.parts[n].action = Inverse(parts[n].action)

\* Three instructions with the smallest change first: SPY before Cash although
\* the cash change is larger.
C4_Witness ==
    /\ Called("generate_rebalance_instructions")
    /\ ret.value.required
    /\ Len(ret.value.instructions.parts) = 3
    /\ Abs(Deltas[1]) < Abs(Deltas[3])
    /\ ret.value.instructions.parts[1].what = "SPY"
    /\ ret.value.instructions.parts[3].action = "Deploy"

---------------------------------------------------------------------------
(* Properties of the generator, under Spec *)

GenerateReturned == result.op = "generate" /\ result.raised = "none"

\* Three non-negative weights whose sum is within 0.001 (3 units) of 1.
ValidWeights(a) ==
    /\ a.spy_weight >= 0
    /\ a.tqqq_weight >= 0
    /\ a.cash_weight >= 0
    /\ Abs(a.spy_weight + a.tqqq_weight + a.cash_weight - 3000) <= 3

\* C2: every Allocation that exists, the held one and the target inside a
\* Signal, has three non-negative weights summing to 1 within 0.001.
C2_AllocationsValid ==
    /\ current_allocation # None => ValidWeights(current_allocation)
    /\ GenerateReturned => ValidWeights(result.signal.allocation)

\* The denominator passed to the generate call whose outcome result holds.
Denominator == result.argv[4]

\* C6: a generate call with vix3m_close = 0 raises and returns no Signal,
\* whether or not an allocation is held, and a returned Signal never carries a
\* ratio over a zero denominator.
C6_ZeroDenominatorFaults ==
    /\ result.op = "generate" /\ Denominator = 0 =>
           /\ result.raised = "ZeroDivisionError"
           /\ result.signal = None
    /\ GenerateReturned => result.signal.vix_ratio.den # 0

\* A generate call that faulted on a generator holding an allocation.
C6_Witness ==
    /\ result.op = "generate"
    /\ Denominator = 0
    /\ result.raised = "ZeroDivisionError"
    /\ result.signal = None
    /\ current_allocation # None

\* Some weight of the held allocation is 0.001 (3 units) or more away from all-cash.
FarFromCash(a) ==
    \/ Abs(a.spy_weight) >= 3
    \/ Abs(a.tqqq_weight) >= 3
    \/ Abs(3000 - a.cash_weight) >= 3

DowntrendSignal ==
    /\ result.signal.trend = "DOWNTREND"
    /\ result.signal.posture = "CASH"
    /\ Weights(result.signal.allocation) = <<0, 0, 3000>>

\* C7 as stated: price <= reference gives DOWNTREND, CASH and 0/0/100, and a
\* held allocation other than all-cash makes rebalance_required true.  (Held
\* allocations with a negative weight are left aside here.)
C7_Original ==
    GenerateReturned /\ result.signal.spy_close <= result.signal.spy_sma =>
        /\ DowntrendSignal
        /\ ( /\ current_allocation # None
             /\ ValidWeights(current_allocation)
             /\ Weights(current_allocation) # <<0, 0, 3000>> )
           => result.signal.rebalance_required

\* C7 as amended: price <= reference gives DOWNTREND, CASH and 0/0/100, and a
\* held allocation with some weight 0.001 or more away from all-cash makes
\* rebalance_required true.
C7_DowntrendCash ==
    GenerateReturned /\ result.signal.spy_close <= result.signal.spy_sma =>
        /\ DowntrendSignal
        /\ (current_allocation # None /\ FarFromCash(current_allocation))
           => result.signal.rebalance_required

\* Price equal to the reference while 50/50/0 is held.
C7_Witness ==
    /\ GenerateReturned
    /\ result.signal.spy_close = result.signal.spy_sma
    /\ current_allocation # None
    /\ Weights(current_allocation) = <<1500, 1500, 0>>
    /\ result.signal.trend = "DOWNTREND"
    /\ result.signal.rebalance_required

\* C8: a generate call with a non-zero denominator returns a Signal; on a
\* generator on which no set_current_allocation has returned it carries
\* required = true and the placeholder, and on one holding an allocation it
\* carries the diff of that allocation against the Signal's target.
C8_PlaceholderOrDiff ==
    result.op = "generate" /\ Denominator # 0 =>
        /\ result.raised = "none"
        /\ last_set = None =>
               /\ result.signal.rebalance_required = TRUE
               /\ result.signal.rebalance_instructions =
                      [text |-> "Set current allocation to enable rebalance instructions.",
                       parts |-> << >>]
        /\ current_allocation # None =>
               LET diff == generate_rebalance_instructions(
                               current_allocation, result.signal.allocation)
               IN  /\ result.signal.rebalance_required = diff.required
                   /\ result.signal.rebalance_instructions = diff.instructions

\* A Signal with the placeholder from a generator that holds nothing.
C8_Witness ==
    /\ GenerateReturned
    /\ last_set = None
    /\ current_allocation = None
    /\ result.signal.rebalance_required
    /\ result.signal.rebalance_instructions.text =
           "Set current allocation to enable rebalance instructions."

\* C10: the held allocation changes only in a set_current_allocation that
\* returns, is never unset again, always holds the weights of the last such
\* call, and is what a returned Signal was diffed against.
C10_HeldFrame ==
    /\ [][ /\ current_allocation' # current_allocation =>
                  result'.op = "set_current_allocation" /\ result'.raised = "none"
           /\ current_allocation # None => current_allocation' # None ]_vars
    /\ [](current_allocation = last_set)
    /\ [](GenerateReturned /\ last_set # None =>
              LET diff == generate_rebalance_instructions(last_set, result.signal.allocation)
              IN  /\ result.signal.rebalance_required = diff.required
                  /\ result.signal.rebalance_instructions = diff.instructions)

\* A rejected set_current_allocation on a generator that still holds the
\* allocation set before it.
C10_Witness ==
    /\ result.op = "set_current_allocation"
    /\ result.raised = "ValueError"
    /\ current_allocation # None
    /\ current_allocation = last_set

\* The posture that goes with a VIX level in an uptrend.
PostureOf(vix_level) ==
    CASE vix_level \in {"VERY_LOW", "LOW"} -> "AGGRESSIVE"
      [] vix_level \in {"MODERATE", "ELEVATED"} -> "BALANCED"
      [] vix_level = "HIGH" -> "DEFENSIVE"

\* C11: in every Signal returned with trend UPTREND the posture agrees with
\* the VIX level of the same Signal (AGGRESSIVE with VERY_LOW or LOW, BALANCED
\* with MODERATE or ELEVATED, DEFENSIVE with HIGH), and the 85/15/0 target goes
\* with DEFENSIVE, also when the ratio equals a threshold.
C11_PostureAgrees ==
    GenerateReturned /\ result.signal.trend = "UPTREND" =>
        /\ result.signal.posture = PostureOf(result.signal.vix_level)
        /\ Weights(result.signal.allocation) = <<2550, 450, 0>>
               <=> result.signal.posture = "DEFENSIVE"

=============================================================================
